---- MODULE Spec2Model ----
(***************************************************************************)
(* The XDP loader of basic02-prog-by-name (xdp_loader.c): one invocation   *)
(* of main() is a process that walks configuration, the --dev check, then  *)
(* either xdp_unload or load / list / find / fd / xdp_load / info / report.*)
(* Invocations share nothing but the kernel's XDP hook of each interface.  *)
(***************************************************************************)
EXTENDS Integers, Sequences, FiniteSets, TLC

(* ---------------- bounds ---------------- *)
\* terminals from which the loader can be started at the same time
NumProcs == 2
\* invocations of the loader that are started in all
MaxRuns == 2
\* largest errno value the set-link call is made to fail with
MaxErrno == 95

Procs == 1..NumProcs

(* ---------------- program constants ---------------- *)
EXIT_OK == 0
EXIT_FAIL_OPTION == 2
EXIT_FAIL_XDP == 30
EXIT_FAIL_BPF == 40

EBUSY == 16
EOPNOTSUPP == 95
ENODEV == 19
EINVAL == 22

\* "has not returned yet"
Running == 999

\* bits of cfg.xdp_flags (linux/if_link.h), kept as a set of bit names
XDP_FLAGS_UPDATE_IF_NOEXIST == "UPDATE_IF_NOEXIST"
XDP_FLAGS_SKB_MODE == "SKB_MODE"
XDP_FLAGS_DRV_MODE == "DRV_MODE"
XDP_FLAGS_MODES == {XDP_FLAGS_SKB_MODE, XDP_FLAGS_DRV_MODE}

default_filename == "xdp_prog_kern.o"
default_progname == "xdp_pass"

(* ---------------- environment: devices and files ---------------- *)
\* net devices that exist; device 1 has a native-XDP capable driver,
\* device 2 only supports generic (skb) XDP
Ifaces == {1, 2}
NativeCapable == {1}
\* what if_nametoindex may have stored in cfg.ifindex: -1 (no --dev), an
\* existing device, or an index whose device is gone
IfindexInputs == {-1, 1, 2, 3}

\* the BPF-ELF object files the operator can name; only the default one
\* is a loadable object
FilenameInputs == {default_filename, "broken.o"}
PrognameInputs == {default_progname, "trace_open", "missing_one"}

\* programs of xdp_prog_kern.o in ELF order: section title and whether
\* libbpf reports the program as an XDP program
ObjectPrograms ==
  << [title |-> "xdp_pass",   is_xdp |-> TRUE],
     [title |-> "trace_open", is_xdp |-> FALSE],
     [title |-> "xdp_drop",   is_xdp |-> TRUE] >>

NULL == 0

\* no program at the hook
NoProg == [id |-> 0, name |-> "", mode |-> "none"]

\* kernel id of program number i loaded by invocation number r
ProgId(r, i) == r * 10 + i
\* descriptor of program number i in the loading process
ProgFd(i) == 3 + i

\* the record main() prints in its success line
NoInfo == [name |-> "", id |-> 0]

(* ---------------- state ---------------- *)
\* per terminal: position in main(), number of the invocation, the mode
\* switches of its command line, main's locals (cfg, bpf_obj, bpf_prog,
\* prog_fd, err, info), the err local of xdp_load/xdp_unload, main's
\* return value and the lines written; hook is the kernel's XDP
\* attachment of each net device, runs the invocations started so far.
\* history: steps (the steps an invocation has performed), last_op and
\* prev_op (the latest set-link call and the one before it, each with the
\* attachment it found) and ever_attached (devices that ever carried a
\* program)
VARIABLES pc, run, argv, cfg, bpf_obj, bpf_prog, prog_fd, err, link_err,
          info, exit_code, out, hook, runs, steps, last_op, prev_op,
          ever_attached

vars == <<pc, run, argv, cfg, bpf_obj, bpf_prog, prog_fd, err, link_err,
          info, exit_code, out, hook, runs, steps, last_op, prev_op,
          ever_attached>>

(* ---------------- output lines ---------------- *)
Line(stream, kind, text, num) ==
  [s |-> stream, k |-> kind, v |-> text, n |-> num]

(* ---------------- kernel: bpf_set_link_xdp_fd ---------------- *)
\* hook variant a flag word addresses: an explicit mode bit, else the
\* best the driver offers
XdpMode(ifindex, flags) ==
  IF XDP_FLAGS_DRV_MODE \in flags THEN "drv"
  ELSE IF XDP_FLAGS_SKB_MODE \in flags THEN "skb"
  ELSE IF ifindex \in NativeCapable THEN "drv" ELSE "skb"

\* the program a descriptor of invocation r refers to (fd > 0)
ProgOfFd(r, fd, flags, ifindex) ==
  LET i == fd - 3
  IN [id |-> ProgId(r, i), name |-> ObjectPrograms[i].title,
      mode |-> XdpMode(ifindex, flags)]

\* set (fd >= 0) or clear (fd < 0) the program at the XDP hook of a device;
\* yields the return value and the new attachment table
bpf_set_link_xdp_fd(h, r, ifindex, fd, flags) ==
  IF ifindex \notin Ifaces THEN [ret |-> -ENODEV, hook |-> h]
  ELSE IF fd < 0
    THEN \* clear the addressed hook variant; clearing a clear hook is fine
         IF h[ifindex].mode = XdpMode(ifindex, flags)
           THEN [ret |-> 0, hook |-> [h EXCEPT ![ifindex] = NoProg]]
           ELSE [ret |-> 0, hook |-> h]
  ELSE IF XDP_FLAGS_UPDATE_IF_NOEXIST \in flags /\ h[ifindex] # NoProg
    THEN [ret |-> -EBUSY, hook |-> h]
  ELSE IF XdpMode(ifindex, flags) = "drv" /\ ifindex \notin NativeCapable
    THEN [ret |-> -EOPNOTSUPP, hook |-> h]
  ELSE [ret |-> 0,
        hook |-> [h EXCEPT ![ifindex] = ProgOfFd(r, fd, flags, ifindex)]]

(* ---------------- command line (common_params.c) ---------------- *)
\* the mode and policy switches of one command line
ModeSwitches ==
  [skb: BOOLEAN, native: BOOLEAN, auto: BOOLEAN, force: BOOLEAN]

NoArgv ==
  [skb |-> FALSE, native |-> FALSE, auto |-> FALSE, force |-> FALSE]

\* the rest of a command line: --unload, --dev, --filename, --progname
\* (options an invocation never looks at are left at their defaults)
TargetInputs ==
  { t \in [unload: BOOLEAN, dev: IfindexInputs, filename: FilenameInputs,
           progname: PrognameInputs] :
      /\ (t.unload \/ t.dev = -1) =>
            (t.filename = default_filename /\ t.progname = default_progname)
      /\ t.filename # default_filename => t.progname = default_progname }

\* command lines of the racing invocations: all aimed at device 1 with
\* the default object, program and mode, with or without --force
RaceSwitches == { a \in ModeSwitches : ~a.skb /\ ~a.native /\ ~a.auto }

RaceTargets ==
  { t \in TargetInputs : t.dev = 1 /\ t.filename = default_filename
                          /\ t.progname = default_progname }

\* variant: the initial flag word lacks XDP_FLAGS_UPDATE_IF_NOEXIST
DefaultConfig_replace ==
  [xdp_flags |-> {XDP_FLAGS_DRV_MODE},
   ifindex |-> -1, do_unload |-> FALSE,
   filename |-> default_filename, progname |-> default_progname]

\* main's initial struct config (before the command line is applied)
DefaultConfig ==
  [xdp_flags |-> {XDP_FLAGS_UPDATE_IF_NOEXIST, XDP_FLAGS_DRV_MODE},
   ifindex |-> -1, do_unload |-> FALSE,
   filename |-> default_filename, progname |-> default_progname]

\* variant: --auto-mode is not checked against the other two
ModeConflict_pair(a) == a.skb /\ a.native

\* conflicting mode switches
ModeConflict(a) ==
  (a.skb /\ a.native) \/ (a.auto /\ (a.skb \/ a.native))

\* the flag word the switches resolve to, starting from the default word
ResolveMode(flags, a) ==
  LET m == IF a.skb THEN (flags \ XDP_FLAGS_MODES) \cup {XDP_FLAGS_SKB_MODE}
           ELSE IF a.native
             THEN (flags \ XDP_FLAGS_MODES) \cup {XDP_FLAGS_DRV_MODE}
           ELSE IF a.auto THEN flags \ XDP_FLAGS_MODES
           ELSE flags
  IN IF a.force THEN m \ {XDP_FLAGS_UPDATE_IF_NOEXIST} ELSE m

\* cfg after the command line has been applied
parse_cmdline_args(c, a, t) ==
  [xdp_flags |-> ResolveMode(c.xdp_flags, a), ifindex |-> t.dev,
   do_unload |-> t.unload, filename |-> t.filename, progname |-> t.progname]

(* ---------------- libbpf object ---------------- *)
NULL_OBJ == << >>

\* bpf_prog_load_xattr on the file: the loaded object, or NULL with the
\* error line when the file is not a loadable BPF-ELF object
load_bpf_object_file(filename) ==
  IF filename = default_filename
    THEN [obj |-> ObjectPrograms, out |-> << >>]
    ELSE [obj |-> NULL_OBJ,
          out |-> << Line("stderr", "ERR: loading BPF-OBJ file", filename, EINVAL) >>]

\* variant: the bpf_program__is_xdp test is missing
print_avail_progs_unfiltered(obj) ==
  [i \in 1..Len(obj) |-> Line("stdout", "avail", obj[i].title, 0)]

\* the titles print_avail_progs writes, in object order
RECURSIVE print_avail_progs(_)
print_avail_progs(obj) ==
  IF obj = << >> THEN << >>
  ELSE (IF Head(obj).is_xdp
          THEN << Line("stdout", "avail", Head(obj).title, 0) >>
          ELSE << >>) \o print_avail_progs(Tail(obj))

\* first program of the object with that section title, NULL if none
bpf_object__find_program_by_title(obj, title) ==
  IF \E i \in 1..Len(obj) : obj[i].title = title
    THEN CHOOSE i \in 1..Len(obj) :
           /\ obj[i].title = title
           /\ \A j \in 1..(i-1) : obj[j].title # title
    ELSE NULL

\* what bpf_program__fd can hand back for a program of a loaded object
bpf_program__fd(i) == {ProgFd(i), -EINVAL}

\* what bpf_obj_get_info_by_fd can yield for one of p's descriptors: the
\* kernel's record of that program, or a failure (-1, errno set)
bpf_obj_get_info_by_fd(r, fd) ==
  { [ret |-> 0, info |-> [name |-> ObjectPrograms[fd - 3].title,
                          id |-> ProgId(r, fd - 3)]],
    [ret |-> -1, info |-> NoInfo] }

\* variant: the query asks what the device's hook carries
get_prog_info_of_hook(h, c, r, fd) ==
  { [ret |-> 0, info |-> [name |-> h[c.ifindex].name, id |-> h[c.ifindex].id]],
    [ret |-> -1, info |-> NoInfo] }

\* the info query of main: about the descriptor main holds, whatever the
\* device's hook (h) carries by now
get_prog_info(h, c, r, fd) == bpf_obj_get_info_by_fd(r, fd)

(* ---------------- xdp_unload / xdp_load ---------------- *)
\* variant: the success test of the set-link call turned around
xdp_unload_inverted(h, rn, ifindex, xdp_flags) ==
  LET r == bpf_set_link_xdp_fd(h, rn, ifindex, -1, xdp_flags)
  IN IF r.ret >= 0
       THEN [ret |-> EXIT_FAIL_XDP, err |-> r.ret, hook |-> r.hook,
             out |-> << Line("stderr", "ERR: link set xdp unload failed", "", r.ret) >>]
       ELSE [ret |-> EXIT_OK, err |-> r.ret, hook |-> r.hook, out |-> << >>]

\* variant: the unload passes no flags instead of the caller's flag word
xdp_unload_noflags(h, rn, ifindex, xdp_flags) ==
  LET r == bpf_set_link_xdp_fd(h, rn, ifindex, -1, {})
  IN IF r.ret < 0
       THEN [ret |-> EXIT_FAIL_XDP, err |-> r.ret, hook |-> r.hook,
             out |-> << Line("stderr", "ERR: link set xdp unload failed", "", r.ret) >>]
       ELSE [ret |-> EXIT_OK, err |-> r.ret, hook |-> r.hook, out |-> << >>]

xdp_unload(h, rn, ifindex, xdp_flags) ==
  LET r == bpf_set_link_xdp_fd(h, rn, ifindex, -1, xdp_flags)
  IN IF r.ret < 0
       THEN [ret |-> EXIT_FAIL_XDP, err |-> r.ret, hook |-> r.hook,
             out |-> << Line("stderr", "ERR: link set xdp unload failed", "", r.ret) >>]
       ELSE [ret |-> EXIT_OK, err |-> r.ret, hook |-> r.hook, out |-> << >>]

\* variant: the EBUSY case of the switch is missing
Hint_no_busy(e) ==
  IF e = EOPNOTSUPP
    THEN << Line("stderr", "Hint: Native-XDP not supported use --skb-mode or --auto-mode", "", 0) >>
  ELSE << >>

\* the hint line of xdp_load's switch (-err)
Hint(e) ==
  IF e = EBUSY
    THEN << Line("stderr", "Hint: XDP already loaded on device use --force to swap/replace", "", 0) >>
  ELSE IF e = EOPNOTSUPP
    THEN << Line("stderr", "Hint: Native-XDP not supported use --skb-mode or --auto-mode", "", 0) >>
  ELSE << >>

\* the branch of xdp_load taken when the set-link call returned -e: the
\* error line with the errno, the hint, EXIT_FAIL_XDP
link_set_failed(e) ==
  [ret |-> EXIT_FAIL_XDP,
   out |-> << Line("stderr", "ERR: link set xdp fd failed", "", e) >> \o Hint(e)]

\* variant: the failure branch falls through to return EXIT_OK
xdp_load_swallows(h, rn, c, fd) ==
  LET r == bpf_set_link_xdp_fd(h, rn, c.ifindex, fd, c.xdp_flags)
  IN IF r.ret < 0
       THEN [ret |-> EXIT_OK, err |-> r.ret, hook |-> r.hook,
             out |-> << Line("stderr", "ERR: link set xdp fd failed", "", -r.ret) >>
                     \o Hint(-r.ret)]
       ELSE [ret |-> EXIT_OK, err |-> r.ret, hook |-> r.hook, out |-> << >>]

\* variant: the attach always asks for update-if-noexist, --force or not
xdp_load_noexist(h, rn, c, fd) ==
  LET r == bpf_set_link_xdp_fd(h, rn, c.ifindex, fd,
                               c.xdp_flags \cup {XDP_FLAGS_UPDATE_IF_NOEXIST})
  IN IF r.ret < 0
       THEN [ret |-> EXIT_FAIL_XDP, err |-> r.ret, hook |-> r.hook,
             out |-> << Line("stderr", "ERR: link set xdp fd failed", "", -r.ret) >>
                     \o Hint(-r.ret)]
       ELSE [ret |-> EXIT_OK, err |-> r.ret, hook |-> r.hook, out |-> << >>]

\* variant: a rejected attach is followed by clearing the hook
xdp_load_cleanup(h, rn, c, fd) ==
  LET r == bpf_set_link_xdp_fd(h, rn, c.ifindex, fd, c.xdp_flags)
  IN IF r.ret < 0
       THEN [ret |-> EXIT_FAIL_XDP, err |-> r.ret,
             hook |-> [i \in Ifaces |->
                         IF i = c.ifindex THEN NoProg ELSE r.hook[i]],
             out |-> << Line("stderr", "ERR: link set xdp fd failed", "", -r.ret) >>
                     \o Hint(-r.ret)]
       ELSE [ret |-> EXIT_OK, err |-> r.ret, hook |-> r.hook, out |-> << >>]

\* variant: the attach never asks for update-if-noexist
xdp_load_forces(h, rn, c, fd) ==
  LET r == bpf_set_link_xdp_fd(h, rn, c.ifindex, fd,
                               c.xdp_flags \ {XDP_FLAGS_UPDATE_IF_NOEXIST})
  IN IF r.ret < 0
       THEN [ret |-> EXIT_FAIL_XDP, err |-> r.ret, hook |-> r.hook,
             out |-> << Line("stderr", "ERR: link set xdp fd failed", "", -r.ret) >>
                     \o Hint(-r.ret)]
       ELSE [ret |-> EXIT_OK, err |-> r.ret, hook |-> r.hook, out |-> << >>]

xdp_load(h, rn, c, fd) ==
  LET r == bpf_set_link_xdp_fd(h, rn, c.ifindex, fd, c.xdp_flags)
  IN IF r.ret < 0
       THEN [ret |-> link_set_failed(-r.ret).ret, err |-> r.ret,
             hook |-> r.hook, out |-> link_set_failed(-r.ret).out]
       ELSE [ret |-> EXIT_OK, err |-> r.ret, hook |-> r.hook, out |-> << >>]

(* ---------------- main(): decisions ---------------- *)
\* variant: the check tests for 0 instead of -1
dev_missing_zero(c) == c.ifindex = 0

\* "Required option": --dev was not given or did not resolve
dev_missing(c) == c.ifindex = -1

\* variant: the --unload branch is missing
after_check_dev_no_unload(c) == "load"

\* where main goes once the device is known
after_check_dev(c) == IF c.do_unload THEN "unload" ELSE "load"

\* variant: only descriptor 0 is refused
bad_fd_zero(fd) == fd = 0

\* variant: no descriptor is refused
bad_fd_never(fd) == FALSE

\* a descriptor main refuses to attach
bad_fd(fd) == fd <= 0

\* attachment found at a device by a set-link call
Found(h, ifindex) == IF ifindex \in Ifaces THEN h[ifindex] ELSE NoProg

NoOp ==
  [op |-> "none", run |-> 0, ifindex |-> -1, flags |-> {}, fd |-> -1,
   ret |-> 0, found |-> NoProg]

\* what is remembered of the call before the latest one
Brief(o) == [op |-> o.op, ifindex |-> o.ifindex, flags |-> o.flags,
             ret |-> o.ret]

Exit(p, code) ==
  /\ exit_code' = [exit_code EXCEPT ![p] = code]
  /\ pc' = [pc EXCEPT ![p] = "done"]

Emit(p, lines) == out' = [out EXCEPT ![p] = @ \o lines]

Did(p, step) == steps' = [steps EXCEPT ![p] = Append(@, step)]

(* ---------------- initial state ---------------- *)
Init ==
  /\ pc = [p \in Procs |-> "idle"]
  /\ run = [p \in Procs |-> 0]
  /\ argv = [p \in Procs |-> NoArgv]
  /\ cfg = [p \in Procs |-> DefaultConfig]
  /\ bpf_obj = [p \in Procs |-> NULL_OBJ]
  /\ bpf_prog = [p \in Procs |-> NULL]
  /\ prog_fd = [p \in Procs |-> -1]
  /\ err = [p \in Procs |-> 0]
  /\ link_err = [p \in Procs |-> 0]
  /\ info = [p \in Procs |-> NoInfo]
  /\ exit_code = [p \in Procs |-> Running]
  /\ out = [p \in Procs |-> << >>]
  /\ hook = [i \in Ifaces |-> NoProg]
  /\ runs = 0
  /\ steps = [p \in Procs |-> << >>]
  /\ last_op = NoOp
  /\ prev_op = Brief(NoOp)
  /\ ever_attached = [i \in Ifaces |-> FALSE]

(* ---------------- main(): steps ---------------- *)
\* a new invocation: locals initialised, command line applied, the
\* "filename: ... progname: ..." line printed
Configure(p, switches, targets) ==
  /\ pc[p] \in {"idle", "done"}
  /\ runs < MaxRuns
  /\ \E a \in switches, t \in targets :
       /\ runs' = runs + 1
       /\ run' = [run EXCEPT ![p] = runs + 1]
       /\ argv' = [argv EXCEPT ![p] = a]
       /\ bpf_obj' = [bpf_obj EXCEPT ![p] = NULL_OBJ]
       /\ bpf_prog' = [bpf_prog EXCEPT ![p] = NULL]
       /\ prog_fd' = [prog_fd EXCEPT ![p] = -1]
       /\ err' = [err EXCEPT ![p] = 0]
       /\ link_err' = [link_err EXCEPT ![p] = 0]
       /\ info' = [info EXCEPT ![p] = NoInfo]
       /\ steps' = [steps EXCEPT ![p] = << "config", "mode" >>]
       /\ IF ModeConflict(a)
            THEN /\ cfg' = [cfg EXCEPT ![p] = DefaultConfig]
                 /\ out' = [out EXCEPT ![p] =
                              << Line("stderr", "usage", "", 0) >>]
                 /\ Exit(p, EXIT_FAIL_OPTION)
            ELSE /\ cfg' = [cfg EXCEPT ![p] =
                              parse_cmdline_args(DefaultConfig, a, t)]
                 /\ out' = [out EXCEPT ![p] =
                              << Line("stdout", "filename", t.filename, 0),
                                 Line("stdout", "progname", t.progname, 0) >>]
                 /\ exit_code' = [exit_code EXCEPT ![p] = Running]
                 /\ pc' = [pc EXCEPT ![p] = "check_dev"]
  /\ UNCHANGED <<hook, last_op, prev_op, ever_attached>>

\* the --dev check and the branch on --unload
CheckDev(p) ==
  /\ pc[p] = "check_dev"
  /\ Did(p, "check_dev")
  /\ IF dev_missing(cfg[p])
       THEN /\ Emit(p, << Line("stderr", "ERR: required option --dev missing", "", 0),
                          Line("stderr", "usage", "", 0) >>)
            /\ Exit(p, EXIT_FAIL_OPTION)
       ELSE /\ pc' = [pc EXCEPT ![p] = after_check_dev(cfg[p])]
            /\ UNCHANGED <<out, exit_code>>
  /\ UNCHANGED <<run, argv, cfg, bpf_obj, bpf_prog, prog_fd, err, link_err,
                 info, hook, runs, last_op, prev_op, ever_attached>>

\* return xdp_unload(cfg.ifindex, cfg.xdp_flags)
Unload(p) ==
  /\ pc[p] = "unload"
  /\ LET r == xdp_unload(hook, run[p], cfg[p].ifindex, cfg[p].xdp_flags)
     IN /\ hook' = r.hook
        /\ link_err' = [link_err EXCEPT ![p] = r.err]
        /\ Emit(p, r.out)
        /\ Exit(p, r.ret)
        /\ last_op' = [op |-> "detach", run |-> run[p],
                       ifindex |-> cfg[p].ifindex,
                       flags |-> cfg[p].xdp_flags, fd |-> -1, ret |-> r.err,
                       found |-> Found(hook, cfg[p].ifindex)]
        /\ prev_op' = Brief(last_op)
  /\ Did(p, "detach")
  /\ UNCHANGED <<run, argv, cfg, bpf_obj, bpf_prog, prog_fd, err, info,
                 runs, ever_attached>>

\* load_bpf_object_file and the object-name line
Load(p) ==
  /\ pc[p] = "load"
  /\ LET r == load_bpf_object_file(cfg[p].filename)
     IN /\ bpf_obj' = [bpf_obj EXCEPT ![p] = r.obj]
        /\ IF r.obj = NULL_OBJ
             THEN /\ Emit(p, r.out \o
                            << Line("stderr", "ERR: loading file", cfg[p].filename, 0) >>)
                  /\ Exit(p, EXIT_FAIL_BPF)
             ELSE /\ Emit(p, << Line("stdout", "XXX: bpf_object__name", cfg[p].filename, 0) >>)
                  /\ pc' = [pc EXCEPT ![p] = "list"]
                  /\ UNCHANGED exit_code
  /\ Did(p, "load")
  /\ UNCHANGED <<run, argv, cfg, bpf_prog, prog_fd, err, link_err, info,
                 hook, runs, last_op, prev_op, ever_attached>>

\* print_avail_progs(bpf_obj)
List(p) ==
  /\ pc[p] = "list"
  /\ Emit(p, print_avail_progs(bpf_obj[p]))
  /\ pc' = [pc EXCEPT ![p] = "find"]
  /\ Did(p, "list")
  /\ UNCHANGED <<run, argv, cfg, bpf_obj, bpf_prog, prog_fd, err, link_err,
                 info, exit_code, hook, runs, last_op, prev_op, ever_attached>>

\* find the program named by cfg.progname
Find(p) ==
  /\ pc[p] = "find"
  /\ LET i == bpf_object__find_program_by_title(bpf_obj[p], cfg[p].progname)
     IN /\ bpf_prog' = [bpf_prog EXCEPT ![p] = i]
        /\ IF i = NULL
             THEN /\ Emit(p, << Line("stderr", "ERR: finding progname", cfg[p].progname, 0) >>)
                  /\ Exit(p, EXIT_FAIL_BPF)
             ELSE /\ pc' = [pc EXCEPT ![p] = "get_fd"]
                  /\ UNCHANGED <<out, exit_code>>
  /\ Did(p, "select")
  /\ UNCHANGED <<run, argv, cfg, bpf_obj, prog_fd, err, link_err, info,
                 hook, runs, last_op, prev_op, ever_attached>>

\* prog_fd = bpf_program__fd(bpf_prog)
GetFd(p) ==
  /\ pc[p] = "get_fd"
  /\ \E fd \in bpf_program__fd(bpf_prog[p]) :
       /\ prog_fd' = [prog_fd EXCEPT ![p] = fd]
       /\ IF bad_fd(fd)
            THEN /\ Emit(p, << Line("stderr", "ERR: bpf_program__fd failed", "", 0) >>)
                 /\ Exit(p, EXIT_FAIL_BPF)
            ELSE /\ pc' = [pc EXCEPT ![p] = "attach"]
                 /\ UNCHANGED <<out, exit_code>>
  /\ Did(p, "get_fd")
  /\ UNCHANGED <<run, argv, cfg, bpf_obj, bpf_prog, err, link_err, info,
                 hook, runs, last_op, prev_op, ever_attached>>

\* err = xdp_load(cfg, prog_fd); if (err) return err
Attach(p) ==
  /\ pc[p] = "attach"
  /\ LET r == xdp_load(hook, run[p], cfg[p], prog_fd[p])
     IN /\ hook' = r.hook
        /\ link_err' = [link_err EXCEPT ![p] = r.err]
        /\ err' = [err EXCEPT ![p] = r.ret]
        /\ Emit(p, r.out)
        /\ IF r.ret # 0
             THEN Exit(p, r.ret)
             ELSE /\ pc' = [pc EXCEPT ![p] = "info"]
                  /\ UNCHANGED exit_code
        /\ last_op' = [op |-> "attach", run |-> run[p],
                       ifindex |-> cfg[p].ifindex,
                       flags |-> cfg[p].xdp_flags, fd |-> prog_fd[p],
                       ret |-> r.err,
                       found |-> Found(hook, cfg[p].ifindex)]
        /\ prev_op' = Brief(last_op)
        /\ ever_attached' =
             [i \in Ifaces |-> ever_attached[i] \/ r.hook[i] # NoProg]
  /\ Did(p, "attach")
  /\ UNCHANGED <<run, argv, cfg, bpf_obj, bpf_prog, prog_fd, info, runs>>

\* bpf_obj_get_info_by_fd(prog_fd, ...), then the error return or the
\* "Success: Loading XDP prog name:..(id:..)" line
Info(p) ==
  /\ pc[p] = "info"
  /\ \E r \in get_prog_info(hook, cfg[p], run[p], prog_fd[p]) :
       /\ err' = [err EXCEPT ![p] = r.ret]
       /\ info' = [info EXCEPT ![p] = r.info]
       /\ IF r.ret # 0
            THEN /\ Emit(p, << Line("stderr", "ERR: can't get prog info", "", 0) >>)
                 /\ Exit(p, r.ret)
            ELSE /\ Emit(p, << Line("stdout", "Success: Loading XDP prog",
                                    r.info.name, r.info.id) >>)
                 /\ Exit(p, EXIT_OK)
  /\ Did(p, "info")
  /\ UNCHANGED <<run, argv, cfg, bpf_obj, bpf_prog, prog_fd, link_err,
                 hook, runs, last_op, prev_op, ever_attached>>

(* ---------------- specifications ---------------- *)
\* one terminal: the operator runs one command after the other
Start(p) == Configure(p, ModeSwitches, TargetInputs)

Next ==
  \/ Start(1)
  \/ CheckDev(1)
  \/ Unload(1)
  \/ Load(1)
  \/ List(1)
  \/ Find(1)
  \/ GetFd(1)
  \/ Attach(1)
  \/ Info(1)

Spec == Init /\ [][Next]_vars

\* several terminals: invocations race for the hook of one device
StartRace(p) == Configure(p, RaceSwitches, RaceTargets)

NextRace ==
  \E p \in Procs :
    \/ StartRace(p)
    \/ CheckDev(p)
    \/ Unload(p)
    \/ Load(p)
    \/ List(p)
    \/ Find(p)
    \/ GetFd(p)
    \/ Attach(p)
    \/ Info(p)

SpecRace == Init /\ [][NextRace]_vars

\* xdp_load on its own, with the set-link call failing in every way: an
\* invocation that has reached line 168 with any resolved flag word and
\* device, and a kernel that answers any errno
InitHint ==
  /\ pc = [p \in Procs |-> IF p = 1 THEN "attach" ELSE "idle"]
  /\ run = [p \in Procs |-> IF p = 1 THEN 1 ELSE 0]
  /\ argv \in { f \in [Procs -> ModeSwitches] :
                  /\ ~ModeConflict(f[1])
                  /\ \A p \in Procs \ {1} : f[p] = NoArgv }
  /\ \E d \in IfindexInputs \ {-1} :
       cfg = [p \in Procs |->
                IF p = 1
                  THEN parse_cmdline_args(DefaultConfig, argv[1],
                         [unload |-> FALSE, dev |-> d,
                          filename |-> default_filename,
                          progname |-> default_progname])
                  ELSE DefaultConfig]
  /\ bpf_obj = [p \in Procs |-> IF p = 1 THEN ObjectPrograms ELSE NULL_OBJ]
  /\ bpf_prog = [p \in Procs |-> IF p = 1 THEN 1 ELSE NULL]
  /\ prog_fd = [p \in Procs |-> IF p = 1 THEN ProgFd(1) ELSE -1]
  /\ err = [p \in Procs |-> 0]
  /\ link_err = [p \in Procs |-> 0]
  /\ info = [p \in Procs |-> NoInfo]
  /\ exit_code = [p \in Procs |-> Running]
  /\ out = [p \in Procs |->
              IF p = 1
                THEN << Line("stdout", "filename", default_filename, 0),
                        Line("stdout", "progname", default_progname, 0),
                        Line("stdout", "XXX: bpf_object__name", default_filename, 0) >>
                     \o print_avail_progs(ObjectPrograms)
                ELSE << >>]
  /\ hook = [i \in Ifaces |-> NoProg]
  /\ runs = 1
  /\ steps = [p \in Procs |->
                IF p = 1
                  THEN << "config", "mode", "check_dev", "load", "list",
                          "select", "get_fd" >>
                  ELSE << >>]
  /\ last_op = NoOp
  /\ prev_op = Brief(NoOp)
  /\ ever_attached = [i \in Ifaces |-> FALSE]

\* err = xdp_load(cfg, prog_fd) with the set-link call returning -e
AttachRejected(p) ==
  /\ pc[p] = "attach"
  /\ \E e \in 1..MaxErrno :
       LET r == link_set_failed(e)
       IN /\ link_err' = [link_err EXCEPT ![p] = -e]
          /\ err' = [err EXCEPT ![p] = r.ret]
          /\ Emit(p, r.out)
          /\ Exit(p, r.ret)
          /\ last_op' = [op |-> "attach", run |-> run[p],
                         ifindex |-> cfg[p].ifindex,
                         flags |-> cfg[p].xdp_flags, fd |-> prog_fd[p],
                         ret |-> -e,
                         found |-> Found(hook, cfg[p].ifindex)]
          /\ prev_op' = Brief(last_op)
  /\ Did(p, "attach")
  /\ UNCHANGED <<run, argv, cfg, bpf_obj, bpf_prog, prog_fd, info, hook,
                 runs, ever_attached>>

NextHint == AttachRejected(1)

SpecHint == InitHint /\ [][NextHint]_vars

(* ======================= claims ======================= *)
\* the invocation at terminal p made the latest set-link call
Latest(p, kind) == last_op.op = kind /\ last_op.run = run[p]

\* the program invocation p selected, as the kernel knows it
Selected(p) ==
  [id |-> ProgId(run[p], bpf_prog[p]),
   name |-> ObjectPrograms[bpf_prog[p]].title]

Identity(a) == [id |-> a.id, name |-> a.name]

\* C1: an attach without --force (XDP_FLAGS_UPDATE_IF_NOEXIST still set)
\* on a device that already carries a program fails with EBUSY, leaves the
\* attachment alone and makes main return EXIT_FAIL_XDP.
C1_AttachOccupiedNoForceBusy ==
  \A p \in Procs :
    ( /\ Latest(p, "attach")
      /\ last_op.found # NoProg
      /\ XDP_FLAGS_UPDATE_IF_NOEXIST \in last_op.flags )
    => /\ last_op.ret = -EBUSY
       /\ link_err[p] = -EBUSY
       /\ pc[p] = "done"
       /\ exit_code[p] = EXIT_FAIL_XDP
       /\ hook[last_op.ifindex] = last_op.found

C1_Witness ==
  \E p \in Procs :
    /\ Latest(p, "attach")
    /\ last_op.found # NoProg
    /\ XDP_FLAGS_UPDATE_IF_NOEXIST \in last_op.flags
    /\ exit_code[p] = EXIT_FAIL_XDP

\* the attach of p (the latest set-link call) found a program and had
\* --force
ForcedOnOccupied(p) ==
  /\ Latest(p, "attach")
  /\ last_op.found # NoProg
  /\ XDP_FLAGS_UPDATE_IF_NOEXIST \notin last_op.flags

\* C2 as stated: every attach with --force on a device that already
\* carries a program succeeds and leaves the newly selected program at the
\* hook.
C2_ForceAlwaysSucceeds ==
  \A p \in Procs :
    ForcedOnOccupied(p)
    => /\ last_op.ret = 0
       /\ Identity(hook[last_op.ifindex]) = Selected(p)

\* C2 (amended): an attach with --force on a device that already carries a
\* program never fails with EBUSY; when the device supports the requested
\* mode it succeeds and the hook holds the newly selected program and no
\* longer the previous one; when it does not, the attach fails with
\* EOPNOTSUPP and the previous program stays.  The hook of a device is
\* emptied only by a detach call, never in the course of an attach.
C2_ForceReplacesWhenSupported ==
  /\ [](\A p \in Procs :
          ForcedOnOccupied(p)
          => IF XdpMode(last_op.ifindex, last_op.flags) = "drv"
                /\ last_op.ifindex \notin NativeCapable
               THEN /\ last_op.ret = -EOPNOTSUPP
                    /\ hook[last_op.ifindex] = last_op.found
               ELSE /\ last_op.ret = 0
                    /\ Identity(hook[last_op.ifindex]) = Selected(p)
                    /\ hook[last_op.ifindex] # last_op.found)
  /\ [][\A i \in Ifaces :
          (hook[i] # NoProg /\ hook'[i] = NoProg) => last_op'.op = "detach"]_vars

C2_Witness ==
  \E p \in Procs :
    /\ ForcedOnOccupied(p)
    /\ last_op.ret = 0
    /\ Identity(hook[last_op.ifindex]) = Selected(p)
    /\ last_op.found.id # hook[last_op.ifindex].id

\* C3: unloading from a device that never carried a program returns
\* EXIT_OK and leaves the hook empty, the first time and again the second
\* time.
C3_DetachIdempotent ==
  \A p \in Procs :
    ( /\ Latest(p, "detach")
      /\ last_op.ifindex \in Ifaces
      /\ ~ever_attached[last_op.ifindex] )
    => /\ last_op.ret = 0
       /\ pc[p] = "done"
       /\ exit_code[p] = EXIT_OK
       /\ hook[last_op.ifindex] = NoProg

\* two unloads in a row of a device that never carried a program
C3_Witness ==
  \E p \in Procs :
    /\ Latest(p, "detach")
    /\ last_op.ifindex \in Ifaces
    /\ ~ever_attached[last_op.ifindex]
    /\ prev_op.op = "detach"
    /\ prev_op.ifindex = last_op.ifindex
    /\ prev_op.flags = last_op.flags
    /\ prev_op.ret = 0
    /\ exit_code[p] = EXIT_OK

\* the latest set-link call is an unload that follows a successful attach
\* to the same device with the same flag word
DetachAfterAttach(p) ==
  /\ Latest(p, "detach")
  /\ prev_op.op = "attach"
  /\ prev_op.ret = 0
  /\ prev_op.ifindex = last_op.ifindex
  /\ prev_op.flags = last_op.flags

\* C4: a successful attach followed by an unload of the same device with
\* the same flag word (the default word included) leaves no program at the
\* device, and the unload returns EXIT_OK.
C4_AttachThenDetachClears ==
  \A p \in Procs :
    DetachAfterAttach(p)
    => /\ hook[last_op.ifindex] = NoProg
       /\ last_op.found # NoProg
       /\ exit_code[p] = EXIT_OK

\* ... with the default flag word (no --force, driver mode)
C4_Witness ==
  \E p \in Procs :
    /\ DetachAfterAttach(p)
    /\ last_op.flags = DefaultConfig.xdp_flags
    /\ last_op.found # NoProg
    /\ hook[last_op.ifindex] = NoProg

Range(q) == { q[i] : i \in 1..Len(q) }

IsPrefix(a, b) == Len(a) <= Len(b) /\ SubSeq(b, 1, Len(a)) = a

\* the steps the ordering guarantee speaks of
OrderedSteps == {"config", "mode", "detach", "load", "select", "attach", "info"}
UnloadOrder == << "config", "mode", "detach" >>
LoadOrder == << "config", "mode", "load", "select", "attach", "info" >>

IsOrderedStep(x) == x \in OrderedSteps

Performed(p) == SelectSeq(steps[p], IsOrderedStep)

\* C5: the steps of an invocation are an initial part of configuration,
\* mode resolution, detach (with --unload) or of configuration, mode
\* resolution, load, select, attach, info query (without); a step is only
\* performed after the one before it succeeded, and an unload invocation
\* performs no load, select, attach or info query.
C5_StepOrder ==
  \A p \in Procs :
    LET s == Performed(p)
    IN /\ IF cfg[p].do_unload THEN IsPrefix(s, UnloadOrder)
                              ELSE IsPrefix(s, LoadOrder)
       /\ Len(s) > 2 => (~ModeConflict(argv[p]) /\ cfg[p].ifindex # -1)
       /\ "select" \in Range(s) => bpf_obj[p] # NULL_OBJ
       /\ "attach" \in Range(s) => (bpf_prog[p] # NULL /\ prog_fd[p] > 0)
       /\ "info" \in Range(s) => (link_err[p] = 0 /\ last_op.op # "none")

C5_Witness ==
  \E p \in Procs :
    /\ Performed(p) = LoadOrder
    /\ exit_code[p] = EXIT_OK

\* C6: with cfg.ifindex = -1 main returns EXIT_FAIL_OPTION from the --dev
\* check, with or without --unload: the invocation performs no load, no
\* attach and no detach, and the step that ends it leaves the attachments
\* of all devices as they were.
C6_UnresolvedDevNoKernelOp ==
  /\ [](\A p \in Procs :
          (pc[p] # "idle" /\ cfg[p].ifindex = -1)
          => /\ Range(steps[p]) \subseteq {"config", "mode", "check_dev"}
             /\ last_op.run # run[p]
             /\ pc[p] = "done" => exit_code[p] = EXIT_FAIL_OPTION)
  /\ [][\A p \in Procs :
          (cfg[p].ifindex = -1 /\ pc[p] = "check_dev" /\ pc'[p] # "check_dev")
          => (hook' = hook /\ last_op' = last_op /\ pc'[p] = "done")]_vars

C6_Witness ==
  \E p \in Procs :
    /\ cfg[p].ifindex = -1
    /\ cfg[p].do_unload
    /\ "check_dev" \in Range(steps[p])
    /\ pc[p] = "done"
    /\ exit_code[p] = EXIT_FAIL_OPTION
    /\ hook # [i \in Ifaces |-> NoProg]

\* C7 as stated: when the attach succeeded and the info query fails, main
\* does not return a failure code.
C7_InfoFailureNotFatal ==
  \A p \in Procs :
    ( /\ pc[p] = "done"
      /\ "info" \in Range(steps[p])
      /\ link_err[p] = 0
      /\ err[p] # 0 )
    => exit_code[p] = EXIT_OK

\* C8 as stated: the identity in the success line is that of the program
\* at the device's hook at the moment of the info query.
C8_ReportsProgramAtHook ==
  [][\A p \in Procs :
       (pc[p] = "info" /\ pc'[p] = "done" /\ err'[p] = 0)
       => info'[p] = Identity(hook[cfg[p].ifindex])]_vars

\* the success line of invocation p
SuccessLines(p) ==
  { i \in 1..Len(out[p]) : out[p][i].k = "Success: Loading XDP prog" }

\* C8 (amended): the identity in the success line is what the kernel holds
\* for the descriptor this invocation attached (its own selected program),
\* also when another invocation has replaced the attachment since.
C8_ReportsOwnProgram ==
  \A p \in Procs :
    (pc[p] = "done" /\ "info" \in Range(steps[p]) /\ err[p] = 0)
    => /\ info[p] = Selected(p)
       /\ SuccessLines(p) # {}
       /\ \A i \in SuccessLines(p) :
            out[p][i].v = Selected(p).name /\ out[p][i].n = Selected(p).id

\* the hook was taken over by another program before the success line
C8_Witness ==
  \E p \in Procs :
    /\ pc[p] = "done" /\ "info" \in Range(steps[p]) /\ err[p] = 0
    /\ last_op.op = "attach" /\ last_op.ret = 0 /\ last_op.run # run[p]
    /\ last_op.found.id = info[p].id
    /\ hook[cfg[p].ifindex].id # info[p].id

XdpTitles(obj) == { obj[i].title : i \in { j \in 1..Len(obj) : obj[j].is_xdp } }
OtherTitles(obj) == { obj[i].title : i \in { j \in 1..Len(obj) : ~obj[j].is_xdp } }

\* titles written by print_avail_progs among the first n lines
Listed(p, n) ==
  { out[p][i].v : i \in { j \in 1..n : out[p][j].k = "avail" } }

\* C9 as stated: selection matches XDP programs only: a --progname that
\* is the title of a program of another type finds nothing, main returns
\* EXIT_FAIL_BPF and attaches nothing; what selection finds is among the
\* titles the enumeration listed.
C9_SelectionOnlyXdp ==
  \A p \in Procs :
    "select" \in Range(steps[p])
    => /\ cfg[p].progname \in OtherTitles(bpf_obj[p])
            => /\ bpf_prog[p] = NULL
               /\ "attach" \notin Range(steps[p])
               /\ pc[p] = "done" /\ exit_code[p] = EXIT_FAIL_BPF
       /\ bpf_prog[p] # NULL
            => bpf_obj[p][bpf_prog[p]].title \in Listed(p, Len(out[p]))

\* C10: when no program of the object has the requested title, main has
\* written the title of every XDP program of the object, and of no other
\* program, before its "finding progname" error line, and returns
\* EXIT_FAIL_BPF.
C10_SelectionFailureListsXdp ==
  \A p \in Procs :
    (pc[p] = "done" /\ "select" \in Range(steps[p]) /\ bpf_prog[p] = NULL)
    => /\ exit_code[p] = EXIT_FAIL_BPF
       /\ \E e \in 1..Len(out[p]) :
            /\ out[p][e].k = "ERR: finding progname"
            /\ out[p][e].v = cfg[p].progname
            /\ Listed(p, e - 1) = XdpTitles(bpf_obj[p])
            /\ Listed(p, Len(out[p])) = XdpTitles(bpf_obj[p])

C10_Witness ==
  \E p \in Procs :
    /\ pc[p] = "done" /\ "select" \in Range(steps[p]) /\ bpf_prog[p] = NULL
    /\ cfg[p].progname = "missing_one"
    /\ Listed(p, Len(out[p])) = {"xdp_pass", "xdp_drop"}
    /\ OtherTitles(bpf_obj[p]) # {}

ExitCodes == {EXIT_OK, EXIT_FAIL_OPTION, EXIT_FAIL_XDP, EXIT_FAIL_BPF}

\* the fatal step of a finished invocation failed in this class
OptionFailed(p) == ModeConflict(argv[p]) \/ cfg[p].ifindex = -1
LinkFailed(p) == link_err[p] < 0
BpfFailed(p) ==
  \/ ("load" \in Range(steps[p]) /\ bpf_obj[p] = NULL_OBJ)
  \/ ("select" \in Range(steps[p]) /\ bpf_prog[p] = NULL)
  \/ ("get_fd" \in Range(steps[p]) /\ prog_fd[p] <= 0)

\* C11 as stated: main always returns one of EXIT_OK, EXIT_FAIL_OPTION,
\* EXIT_FAIL_XDP, EXIT_FAIL_BPF, chosen by the class of the step that
\* failed (EXIT_OK only when none failed); never a raw return value of the
\* kernel or of libbpf.
C11_ExitCodeEnumerated ==
  \A p \in Procs :
    pc[p] = "done"
    => /\ exit_code[p] \in ExitCodes
       /\ OptionFailed(p) => exit_code[p] = EXIT_FAIL_OPTION
       /\ LinkFailed(p) => exit_code[p] = EXIT_FAIL_XDP
       /\ BpfFailed(p) => exit_code[p] = EXIT_FAIL_BPF
       /\ exit_code[p] = EXIT_OK
            => ~(OptionFailed(p) \/ LinkFailed(p) \/ BpfFailed(p))

Count(q, x) == Cardinality({ i \in 1..Len(q) : q[i] = x })

Last(q) == q[Len(q)]

\* C12: an invocation makes at most one set-link call (one attach or one
\* detach, never both) and performs load and select at most once; when
\* one of them fails the invocation is over with that step as its last:
\* no second call, no retry with other flags, no info query.
C12_SingleShot ==
  \A p \in Procs :
    /\ Count(steps[p], "attach") + Count(steps[p], "detach") <= 1
    /\ Count(steps[p], "load") <= 1
    /\ Count(steps[p], "select") <= 1
    /\ LinkFailed(p)
         => /\ pc[p] = "done"
            /\ Last(steps[p]) \in {"attach", "detach"}
            /\ Latest(p, Last(steps[p])) => last_op.ret = link_err[p]
    /\ ("load" \in Range(steps[p]) /\ bpf_obj[p] = NULL_OBJ)
         => (pc[p] = "done" /\ Last(steps[p]) = "load")
    /\ ("select" \in Range(steps[p]) /\ bpf_prog[p] = NULL)
         => (pc[p] = "done" /\ Last(steps[p]) = "select")

\* a rejected attach ended the invocation
C12_Witness ==
  \E p \in Procs :
    /\ LinkFailed(p)
    /\ Last(steps[p]) = "attach"
    /\ Count(steps[p], "attach") = 1
    /\ pc[p] = "done"
    /\ link_err[p] = -EOPNOTSUPP

NativeHint == "Hint: Native-XDP not supported use --skb-mode or --auto-mode"
BusyHint == "Hint: XDP already loaded on device use --force to swap/replace"

\* lines of that kind written by invocation p
LinesOf(p, kind) == { i \in 1..Len(out[p]) : out[p][i].k = kind }

\* the attach of invocation p was rejected by the kernel
Rejected(p) == "attach" \in Range(steps[p]) /\ link_err[p] < 0

\* C13 as stated: after an attach rejected with EOPNOTSUPP the "not
\* supported, use --skb-mode or --auto-mode" hint is written only if
\* driver mode was requested, not when skb mode or auto mode was.
C13_NativeHintOnlyForNativeRequest ==
  \A p \in Procs :
    (Rejected(p) /\ link_err[p] = -EOPNOTSUPP /\ LinesOf(p, NativeHint) # {})
    => XDP_FLAGS_DRV_MODE \in cfg[p].xdp_flags

\* C14: after a rejected attach the "already loaded, use --force" hint is
\* there exactly when the errno is EBUSY, whatever mode was requested;
\* for an errno that is neither EBUSY nor EOPNOTSUPP there is no hint
\* line at all, only the error line carrying the errno; hints are written
\* by nothing but a rejected attach.
C14_BusyHintIffBusy ==
  \A p \in Procs :
    /\ Rejected(p)
         => /\ (LinesOf(p, BusyHint) # {}) <=> (link_err[p] = -EBUSY)
            /\ Cardinality(LinesOf(p, BusyHint)) <= 1
            /\ link_err[p] \notin {-EBUSY, -EOPNOTSUPP}
                 => (LinesOf(p, BusyHint) \cup LinesOf(p, NativeHint) = {})
            /\ \E i \in LinesOf(p, "ERR: link set xdp fd failed") :
                 out[p][i].n = -link_err[p]
    /\ ~Rejected(p)
         => (LinesOf(p, BusyHint) \cup LinesOf(p, NativeHint) = {})

\* EBUSY in skb mode: the hint is there
C14_Witness ==
  \E p \in Procs :
    /\ Rejected(p)
    /\ link_err[p] = -EBUSY
    /\ XDP_FLAGS_SKB_MODE \in cfg[p].xdp_flags
    /\ LinesOf(p, BusyHint) # {}

\* invocation p has applied a command line without a mode conflict
Resolved(p) == "mode" \in Range(steps[p]) /\ ~ModeConflict(argv[p])

\* C15: with none of --skb-mode, --native-mode, --auto-mode and --force
\* the resolved flag word is XDP_FLAGS_DRV_MODE with
\* XDP_FLAGS_UPDATE_IF_NOEXIST, and an attach with it on an occupied hook
\* is refused with EBUSY leaving the hook alone;
\* XDP_FLAGS_UPDATE_IF_NOEXIST is absent from the resolved word only if
\* --force was given.
C15_DefaultModeRefusesReplace ==
  \A p \in Procs :
    Resolved(p)
    => /\ argv[p] = NoArgv
            => /\ cfg[p].xdp_flags =
                    {XDP_FLAGS_DRV_MODE, XDP_FLAGS_UPDATE_IF_NOEXIST}
               /\ (Latest(p, "attach") /\ last_op.found # NoProg)
                    => /\ last_op.flags = cfg[p].xdp_flags
                       /\ last_op.ret = -EBUSY
                       /\ hook[last_op.ifindex] = last_op.found
       /\ XDP_FLAGS_UPDATE_IF_NOEXIST \notin cfg[p].xdp_flags
            => argv[p].force

C15_Witness ==
  \E p \in Procs :
    /\ Resolved(p)
    /\ argv[p] = NoArgv
    /\ Latest(p, "attach")
    /\ last_op.found # NoProg
    /\ last_op.ret = -EBUSY

\* C16: a command line with --skb-mode and --native-mode together
\* (whatever --auto-mode and --force are), or with --auto-mode next to
\* one of the two, ends as an option error right after mode resolution:
\* no load, no attach, no detach.  Every other command line resolves to
\* one flag word with at most one mode bit and goes on to the next step.
C16_ConflictingModesRejected ==
  \A p \in Procs :
    "mode" \in Range(steps[p])
    => IF \/ (argv[p].skb /\ argv[p].native)
          \/ (argv[p].auto /\ (argv[p].skb \/ argv[p].native))
         THEN /\ pc[p] = "done"
              /\ exit_code[p] = EXIT_FAIL_OPTION
              /\ steps[p] = << "config", "mode" >>
              /\ bpf_obj[p] = NULL_OBJ
              /\ last_op.run # run[p]
         ELSE /\ Cardinality(cfg[p].xdp_flags \cap XDP_FLAGS_MODES) <= 1
              /\ argv[p].skb => XDP_FLAGS_SKB_MODE \in cfg[p].xdp_flags
              /\ argv[p].native => XDP_FLAGS_DRV_MODE \in cfg[p].xdp_flags
              /\ argv[p].auto => cfg[p].xdp_flags \cap XDP_FLAGS_MODES = {}
              /\ pc[p] = "done" => Len(steps[p]) > 2

\* --auto-mode with --native-mode and --force, rejected while a program
\* of an earlier invocation stays attached
C16_Witness ==
  \E p \in Procs :
    /\ "mode" \in Range(steps[p])
    /\ argv[p].auto /\ argv[p].native /\ argv[p].force /\ ~argv[p].skb
    /\ exit_code[p] = EXIT_FAIL_OPTION
    /\ \E i \in Ifaces : hook[i] # NoProg

\* invocation p is a load-and-attach invocation that got past --dev
Loading(p) == run[p] > 0 /\ "load" \in Range(steps[p])

Attached(p) == "attach" \in Range(steps[p])

NoForce(p) == XDP_FLAGS_UPDATE_IF_NOEXIST \in cfg[p].xdp_flags

C18_RejectedAttachKeepsHook ==
  /\ [](\A p \in Procs :
          (Latest(p, "attach") /\ last_op.ret < 0)
          => /\ Found(hook, last_op.ifindex) = last_op.found
             /\ pc[p] = "done"
             /\ exit_code[p] = EXIT_FAIL_XDP)
  /\ [][\A p \in Procs :
          (~Attached(p) /\ Attached(p)' /\ link_err'[p] < 0)
          => hook' = hook]_vars

\* --force in driver mode on a device without native support that
\* carries a program: rejected with EOPNOTSUPP, the program stays
C18_Witness ==
  \E p \in Procs :
    /\ Latest(p, "attach")
    /\ last_op.ret = -EOPNOTSUPP
    /\ last_op.found # NoProg
    /\ hook[last_op.ifindex] = last_op.found
    /\ exit_code[p] = EXIT_FAIL_XDP

\* C19: an invocation in which loading the object failed, or no program
\* of the requested title was found, or the program's descriptor is not
\* positive, ends with EXIT_FAIL_BPF at that step; it makes no set-link
\* call, neither attach nor detach, and none of its steps changes a hook.
C19_BpfFailureTouchesNothing ==
  /\ [](\A p \in Procs :
          BpfFailed(p)
          => /\ pc[p] = "done"
             /\ exit_code[p] = EXIT_FAIL_BPF
             /\ Last(steps[p]) \in {"load", "select", "get_fd"}
             /\ ~Attached(p)
             /\ "detach" \notin Range(steps[p])
             /\ last_op.run # run[p])
  /\ [][\A p \in Procs :
          (pc[p] \in {"load", "list", "find", "get_fd"}
           /\ steps'[p] # steps[p])
          => /\ hook' = hook
             /\ last_op' = last_op]_vars

\* no usable descriptor while a program of an earlier invocation is
\* attached to the device: it stays
C19_Witness ==
  \E p \in Procs :
    /\ pc[p] = "done"
    /\ Last(steps[p]) = "get_fd"
    /\ prog_fd[p] <= 0
    /\ exit_code[p] = EXIT_FAIL_BPF
    /\ cfg[p].ifindex \in Ifaces
    /\ hook[cfg[p].ifindex] # NoProg
    /\ \A i \in 1..Len(ObjectPrograms) :
         hook[cfg[p].ifindex].id # ProgId(run[p], i)

\* C20: a load-and-attach invocation never clears a hook.  Its set-link
\* call carries a positive descriptor, never the -1 of a detach, and no
\* step of it, on any path, turns an occupied hook into an empty one.
C20_AttachNeverClears ==
  /\ [](\A p \in Procs :
          Latest(p, "attach")
          => /\ last_op.fd > 0
             /\ last_op.fd = prog_fd[p]
             /\ last_op.found # NoProg => hook[last_op.ifindex] # NoProg)
  /\ [][\A p \in Procs :
          (~cfg[p].do_unload /\ run'[p] = run[p] /\ steps'[p] # steps[p])
          => \A i \in Ifaces : hook[i] # NoProg => hook'[i] # NoProg]_vars

\* a finished load-and-attach invocation on a device that carried a
\* program: one in which the attach went through, the device carries
\* the new program
C20_Witness ==
  \E p \in Procs :
    /\ pc[p] = "done"
    /\ ~cfg[p].do_unload
    /\ Latest(p, "attach")
    /\ last_op.fd > 0
    /\ last_op.found # NoProg
    /\ last_op.ret = 0
    /\ hook[last_op.ifindex] # NoProg
    /\ hook[last_op.ifindex] # last_op.found

====
